---- MODULE Spec2Model ----
(***************************************************************************)
(* Model of the grblHAL probe protection plugin (probe_plugin.c).          *)
(*                                                                         *)
(* The state is the plugin's static variables together with the host      *)
(* (grblHAL core / driver) slots the plugin reads and writes: the stepper  *)
(* pulse handler, the probe-state provider, the probe polarity setting,    *)
(* the hard-limit enablement and the realtime command queue.  Function     *)
(* pointers are modelled by the name of the function they point to.        *)
(***************************************************************************)
EXTENDS Integers, FiniteSets, Sequences, TLC

(***************************************************************************)
(* Bounds of the model and program constants.                              *)
(***************************************************************************)
MaxQueue == 1        \* pending CMD_PROBE_CONNECTED_TOGGLE tokens the host queue holds
MaxRecursion == 2    \* guard activations observed before a self-recursion is cut off
MaxPorts == 3        \* largest small port count / stored index tried by the settings load

PROBE_TOOL == 99     \* tool id that marks the probe (onToolSelected)
MCODE_CONNECT == 401
MCODE_DISCONNECT == 402

ToolIds == {1, PROBE_TOOL}                        \* tool ids the host selects
MCodes == {3, MCODE_CONNECT, MCODE_DISCONNECT}    \* user M-codes the host dispatches
ExecStates == {"STATE_IDLE", "STATE_CHECK_MODE"}  \* sys state passed to mcode_execute

NULL == "NULL"

U8(x) == x % 256     \* uint8_t arithmetic

\* names of the functions the modelled pointers can hold
DriverPulse == "driver_pulse_start"
Guard == "on_pulse_start"
DriverGetState == "driver_probe_get_state"
Redirect == "probeGetState"
HostSpindle == "driver_spindle_set_state"

VARIABLES
    n_ports,                 \* static uint8_t n_ports
    probe_protect_settings,  \* protect_port, tool_port, flags
    probe_connect_port,
    tool_probe_port,
    nvs_invert_probe_pin,
    probe_connected,         \* probe_connected_flags_t
    stepper_pulse_start,     \* saved previous pulse handler
    hal_pulse_start,         \* hal.stepper.pulse_start
    probe_get_state,         \* saved previous probe-state provider
    hal_get_state,           \* hal.probe.get_state
    on_spindle_set_state,    \* saved spindle set_state handler
    user_mcode,              \* saved user_mcode_ptrs_t
    driver_reset,            \* saved driver reset handler
    hooks,                   \* saved previous handlers of the lifecycle hooks
    invert_probe_pin,        \* settings.probe.invert_probe_pin
    hard_enabled,            \* settings.limits.flags.hard_enabled
    limits_enabled,          \* what hal.limits.enable was last called with
    toggleQ,                 \* CMD_PROBE_CONNECTED_TOGGLE tokens waiting in the host
    pinLevel,                \* level of the probe-connected input pin
    probing,                 \* between probe_start and probe_completed
    registered,              \* settings_register was called (load will run)
    out,                     \* what the last call did towards the host
    fx                       \* history of the running fixture probe sequence

vars == << n_ports, probe_protect_settings, probe_connect_port, tool_probe_port,
           nvs_invert_probe_pin, probe_connected, stepper_pulse_start,
           hal_pulse_start, probe_get_state, hal_get_state, on_spindle_set_state,
           user_mcode, driver_reset, hooks, invert_probe_pin,
           hard_enabled, limits_enabled, toggleQ, pinLevel, probing, registered,
           out, fx >>

(***************************************************************************)
(* Types of the plugin's data.                                             *)
(***************************************************************************)
probe_protect_flags_t ==
    [invert : BOOLEAN, hardlimits : BOOLEAN, ext_pin : BOOLEAN,
     ext_pin_inv : BOOLEAN, tool_pin : BOOLEAN, tool_pin_inv : BOOLEAN]

ZeroFlags ==
    [invert |-> FALSE, hardlimits |-> FALSE, ext_pin |-> FALSE,
     ext_pin_inv |-> FALSE, tool_pin |-> FALSE, tool_pin_inv |-> FALSE]

\* static probe_protect_settings_t probe_protect_settings (zero initialised)
ZeroSettings == [protect_port |-> 0, tool_port |-> 0, flags |-> ZeroFlags]

\* static probe_connected_flags_t probe_connected, after probe_connected.value = 0
ZeroConnected == [toggle |-> FALSE, mcode |-> FALSE, ext_pin |-> FALSE, t99 |-> FALSE]

\* mutant of ConnectedValue: the M-code flag does not count
ConnectedValueNoCommand(pc) == pc.toggle \/ pc.ext_pin \/ pc.t99

\* probe_connected.value != 0 : the union's byte is the OR of its bit fields
ConnectedValue(pc) == pc.toggle \/ pc.mcode \/ pc.ext_pin \/ pc.t99

ProbeSamples == [connected : BOOLEAN, triggered : BOOLEAN]

\* What the last call did towards the host: op the function called, arg (and
\* arg2) its integer arguments, ctx the sys state it was called in, callee the function it
\* handed the call on to, fwd the number of times it did so, resets the number
\* of CMD_RESET enqueued, warns the number of Message_Warning reports, term
\* whether the call returned, res the status the callee returned and ret the
\* status the call returned (both TRUE where no status is returned).
Out(op) ==
    [op |-> op, arg |-> 0, arg2 |-> 0, ctx |-> NULL, callee |-> NULL, fwd |-> 0,
     resets |-> 0, warns |-> 0, term |-> TRUE, res |-> TRUE, ret |-> TRUE]

\* a call handed on once to the previously installed handler h (none when NULL)
Chain(o, h) == IF h # NULL THEN [o EXCEPT !.callee = h, !.fwd = 1] ELSE o

\* bool status = true; if(h) status = h(...); return status;  (r is what h returns)
ChainStatus(o, h, r) ==
    IF h # NULL THEN [o EXCEPT !.callee = h, !.fwd = 1, !.res = r, !.ret = r] ELSE o

FxIdle == [stage |-> "idle", pol |-> FALSE, lim |-> FALSE, armed |-> FALSE]

(***************************************************************************)
(* Settings load: restore of defaults and the sanity check on the ports.   *)
(***************************************************************************)
plugin_settings_restore(num_digital_out) ==
    [protect_port |-> IF num_digital_out # 0 THEN U8(num_digital_out - 1) ELSE 0,
     tool_port |-> IF num_digital_out # 0 THEN U8(num_digital_out - 1) ELSE 0,
     flags |-> ZeroFlags]

SanityCheck(s, n) ==
    [s EXCEPT !.protect_port = IF @ >= n THEN U8(n - 1) ELSE @,
              !.tool_port = IF @ >= n THEN U8(n - 2) ELSE @]

\* the value of probe_protect_settings after plugin_settings_load
LoadedSettings(stored, nvs_ok, num_digital_out, n) ==
    SanityCheck(IF nvs_ok THEN stored ELSE plugin_settings_restore(num_digital_out), n)

(***************************************************************************)
(* Initial state: after probe_protect_init and, when the settings were     *)
(* registered, after the host's first call of plugin_settings_load.        *)
(***************************************************************************)
HostHooks ==
    [on_probe_start |-> "host_on_probe_start",
     on_probe_completed |-> "host_on_probe_completed",
     on_probe_fixture |-> "host_on_probe_fixture",
     on_tool_selected |-> "host_on_tool_selected",
     on_spindle_select |-> "host_on_spindle_select",
     probe_connected_toggle |-> "driver_probe_connected_toggle"]

NoHooks == [h \in DOMAIN HostHooks |-> NULL]

\* hal.user_mcode after probe_protect_init: the plugin's own mcode_check,
\* mcode_validate and mcode_execute.  No plugin installs itself over them later
\* (the plugin has to be the last M-code handler installed).
OwnMCode == "probe_plugin_mcode"

\* state left by probe_protect_init; explicit is ioport_can_claim_explicit(),
\* alloc_ok the success of nvs_alloc, np the number of digital inputs
Boot(explicit, alloc_ok, np) ==
    /\ n_ports = np
    /\ probe_connected = ZeroConnected
    /\ stepper_pulse_start = NULL
    /\ hal_pulse_start = DriverPulse
    /\ probe_get_state = NULL
    /\ hal_get_state = DriverGetState
    /\ on_spindle_set_state = NULL
    /\ probe_connect_port = IF ~explicit /\ np > 0 THEN np - 1 ELSE 0
    /\ tool_probe_port = 0
    /\ driver_reset = IF ~explicit /\ np > 0 THEN "probe_reset" ELSE "host_driver_reset"
    /\ registered = (explicit /\ alloc_ok)
    /\ hooks \in {HostHooks, NoHooks}
    /\ invert_probe_pin \in BOOLEAN
    /\ hard_enabled \in BOOLEAN
    /\ limits_enabled = hard_enabled
    /\ toggleQ = 0
    /\ pinLevel \in BOOLEAN
    /\ probing = FALSE
    /\ out = Out("probe_protect_init")
    /\ fx = FxIdle

\* The stored flag sets the runs start from: an inversion flag is only set
\* with its pin, and the external connect pin is not combined with the
\* fixture options (the two groups drive separate parts of the state).
Configs ==
    { f \in probe_protect_flags_t :
        /\ f.ext_pin_inv => f.ext_pin
        /\ f.tool_pin_inv => f.tool_pin
        /\ f.ext_pin => ~(f.invert \/ f.hardlimits \/ f.tool_pin) }

Init ==
    \E explicit \in BOOLEAN, alloc_ok \in BOOLEAN, f \in Configs :
        /\ Boot(explicit, alloc_ok, MaxPorts)
        /\ f.ext_pin \/ ~pinLevel
        /\ probe_protect_settings =
              IF registered
              THEN LoadedSettings([protect_port |-> MaxPorts, tool_port |-> MaxPorts,
                                   flags |-> f], TRUE, 0, n_ports)
              ELSE ZeroSettings
        /\ registered \/ f = ZeroFlags
        /\ nvs_invert_probe_pin = IF registered THEN invert_probe_pin ELSE FALSE
        /\ user_mcode = OwnMCode

\* variables no runtime handler assigns
cfgVars == << n_ports, probe_protect_settings, probe_connect_port, tool_probe_port,
              nvs_invert_probe_pin, user_mcode, driver_reset, hooks, hard_enabled,
              registered >>
pulseVars == << stepper_pulse_start, hal_pulse_start >>
stateVars == << probe_get_state, hal_get_state >>

flags == probe_protect_settings.flags

\* a call that did not return (unbounded recursion) ends the run
Running == out.term

\* The host selects its spindle while it starts up, before it dispatches any
\* command, probe or motion; later selections may follow at any time.
Started == Running /\ on_spindle_set_state # NULL

(***************************************************************************)
(* Probe state providers.                                                  *)
(***************************************************************************)
\* probeGetState: the redirected provider reads the tool probe pin
probeGetState(level) ==
    [connected |-> TRUE,
     triggered |-> IF flags.tool_pin_inv THEN ~level ELSE level]

\* the digital input probeGetState hands to hal.port.wait_on_input.
\* tool_probe_port is a zero-initialised static that no statement assigns from
\* probe_protect_settings.tool_port; plugin_settings_load hands its address to
\* ioport_claim, so the input claimed and read is the one it names, input 0.
probeGetStatePort == tool_probe_port

\* hal.probe.get_state(): primary is what the driver's provider would return,
\* level the level of the digital input tool_probe_port
HalGetState(primary, level) ==
    IF hal_get_state = Redirect THEN probeGetState(level) ELSE primary

(***************************************************************************)
(* Arming and disarming of the stepper pulse guard.                        *)
(***************************************************************************)
protection_on ==
    /\ stepper_pulse_start' = hal_pulse_start
    /\ hal_pulse_start' = Guard

protection_off ==
    IF stepper_pulse_start # NULL
    THEN /\ hal_pulse_start' = stepper_pulse_start
         /\ stepper_pulse_start' = NULL
    ELSE UNCHANGED pulseVars

\* the plugin's pulse guard is the installed hal.stepper.pulse_start
Armed == hal_pulse_start = Guard

\* mutant of ReadExternalPin: the configured inversion is not applied
ReadExternalPinRaw(pc, val) ==
    IF flags.ext_pin THEN [pc EXCEPT !.ext_pin = (val = 1)] ELSE pc

\* probe_connected.ext_pin after the pin was read (val is what wait_on_input returned)
ReadExternalPin(pc, val) ==
    IF flags.ext_pin
    THEN [pc EXCEPT !.ext_pin = IF flags.ext_pin_inv THEN ~(val = 1) ELSE (val = 1)]
    ELSE pc

\* on_probe_connected_toggle, entered with probe_connected = pc
on_probe_connected_toggle(pc) ==
    LET npc == ReadExternalPin(pc, IF pinLevel THEN 1 ELSE 0)
    IN /\ probe_connected' = npc
       /\ IF ConnectedValue(npc) THEN protection_on ELSE protection_off

\* the previous connected_toggle handler runs when the probe reads disconnected
ToggleOut(sample) ==
    IF ~sample.connected
    THEN Chain(Out("on_probe_connected_toggle"), hooks.probe_connected_toggle)
    ELSE Out("on_probe_connected_toggle")

\* history of the fixture probe sequence: any call outside it ends the tracking
FxEnd == fx' = FxIdle

(***************************************************************************)
(* Interrupt handler and deferred toggle processing.                       *)
(***************************************************************************)
\* an edge on the probe-connected pin runs the registered handler
set_connected ==
    /\ Started
    /\ registered /\ flags.ext_pin
    /\ toggleQ < MaxQueue
    /\ pinLevel' = ~pinLevel
    /\ toggleQ' = toggleQ + 1
    /\ out' = Out("set_connected")
    /\ FxEnd
    /\ UNCHANGED << cfgVars, pulseVars, stateVars, probe_connected,
                    on_spindle_set_state, invert_probe_pin, limits_enabled, probing >>

\* the host takes a CMD_PROBE_CONNECTED_TOGGLE token and calls hal.probe.connected_toggle
ProcessToggle ==
    /\ Started
    /\ toggleQ > 0
    /\ toggleQ' = toggleQ - 1
    /\ on_probe_connected_toggle(probe_connected)
    /\ \E primary \in ProbeSamples, level \in BOOLEAN :
          out' = ToggleOut(HalGetState(primary, level))
    /\ FxEnd
    /\ UNCHANGED << cfgVars, stateVars, on_spindle_set_state, invert_probe_pin,
                    limits_enabled, pinLevel, probing >>

(***************************************************************************)
(* Tool selection.                                                         *)
(***************************************************************************)
\* mutant of ToolIsProbe: the flag is set for tool 99 and never cleared
ToolIsProbeSticky(tool_id) == tool_id = PROBE_TOOL \/ probe_connected.t99

\* probe_connected.t99 after a tool with this id was selected
ToolIsProbe(tool_id) == tool_id = PROBE_TOOL

onToolSelected(tool_id) ==
    /\ Started
    /\ on_probe_connected_toggle([probe_connected EXCEPT !.t99 = ToolIsProbe(tool_id)])
    /\ out' = Chain([Out("onToolSelected") EXCEPT !.arg = tool_id], hooks.on_tool_selected)
    /\ FxEnd
    /\ UNCHANGED << cfgVars, stateVars, on_spindle_set_state, invert_probe_pin,
                    limits_enabled, toggleQ, pinLevel, probing >>

(***************************************************************************)
(* User M-codes M401 / M402.                                               *)
(***************************************************************************)
\* A call of user_mcode.check / validate / execute for a code the plugin does
\* not own.  user_mcode is copied from hal.user_mcode after the plugin's own
\* functions were stored there, so the callee is the plugin's own function
\* again and the call never returns.
MCodeForward(o) ==
    IF user_mcode = NULL THEN o
    ELSE [o EXCEPT !.callee = user_mcode, !.fwd = IF user_mcode = OwnMCode THEN MaxRecursion ELSE 1,
                   !.term = (user_mcode # OwnMCode)]

Owned(code) == code = MCODE_CONNECT \/ code = MCODE_DISCONNECT

mcode_check(code) ==
    /\ Started
    /\ out' = IF Owned(code) THEN [Out("mcode_check") EXCEPT !.arg = code]
              ELSE MCodeForward([Out("mcode_check") EXCEPT !.arg = code])
    /\ FxEnd
    /\ UNCHANGED << cfgVars, pulseVars, stateVars, probe_connected, on_spindle_set_state,
                    invert_probe_pin, limits_enabled, toggleQ, pinLevel, probing >>

mcode_validate(code) ==
    /\ Started
    /\ out' = IF Owned(code) THEN [Out("mcode_validate") EXCEPT !.arg = code]
              ELSE MCodeForward([Out("mcode_validate") EXCEPT !.arg = code])
    /\ FxEnd
    /\ UNCHANGED << cfgVars, pulseVars, stateVars, probe_connected, on_spindle_set_state,
                    invert_probe_pin, limits_enabled, toggleQ, pinLevel, probing >>

\* mutant of Executes: the switch is entered in check mode too
ExecutesAlways(state) == TRUE

\* the switch of mcode_execute is skipped in check mode, with handled left true
Executes(state) == state # "STATE_CHECK_MODE"

\* mutant of AlreadySet: M402 tested with the condition of M401
AlreadySetSameTest(pc, asserted) == pc.mcode

\* M401 with the flag set, or M402 with the flag clear (asserted is the value
\* the command asks for)
AlreadySet(pc, asserted) == pc.mcode = asserted

\* mutant of SetByCommand: the command also clears the tool 99 flag
SetByCommandClearsTool(pc, asserted) == [pc EXCEPT !.mcode = asserted, !.t99 = FALSE]

\* probe_connected.mcode = true (M401) / false (M402)
SetByCommand(pc, asserted) == [pc EXCEPT !.mcode = asserted]

mcode_execute(state, code) ==
    LET o == [Out("mcode_execute") EXCEPT !.arg = code, !.ctx = state]
        asserted == (code = MCODE_CONNECT)
    IN /\ Started
       /\ IF Executes(state) /\ Owned(code)
          THEN IF ~AlreadySet(probe_connected, asserted)
               THEN /\ toggleQ < MaxQueue
                    /\ probe_connected' = SetByCommand(probe_connected, asserted)
                    /\ toggleQ' = toggleQ + 1
                    /\ out' = o
               ELSE /\ out' = [o EXCEPT !.warns = 1]
                    /\ UNCHANGED << probe_connected, toggleQ >>
          ELSE /\ out' = IF Executes(state) THEN MCodeForward(o) ELSE o
               /\ UNCHANGED << probe_connected, toggleQ >>
       /\ FxEnd
       /\ UNCHANGED << cfgVars, pulseVars, stateVars, on_spindle_set_state,
                       invert_probe_pin, limits_enabled, pinLevel, probing >>

(***************************************************************************)
(* Stepper pulse guard.                                                    *)
(***************************************************************************)
\* the probe state that makes the guard enqueue CMD_RESET
Unsafe(sample) == sample.triggered \/ ~sample.connected

\* on_pulse_start with the probe sample it read (arg of out is 1 when that
\* sample was unsafe).  When the saved handler is
\* the guard itself the call recurses without end: every activation reads the
\* probe again, so any number of resets from the first activation's on may be
\* enqueued before the stack is exhausted.
on_pulse_start(sample) ==
    LET n == IF Unsafe(sample) THEN 1 ELSE 0
        o == [Out("on_pulse_start") EXCEPT !.arg = n, !.resets = n, !.warns = n]
    IN IF stepper_pulse_start = Guard
       THEN { [o EXCEPT !.callee = Guard, !.fwd = MaxRecursion, !.resets = k,
                        !.warns = k, !.term = FALSE] : k \in n..MaxRecursion }
       ELSE { Chain(o, stepper_pulse_start) }

\* the stepper driver calls hal.stepper.pulse_start for a step
Pulse ==
    /\ Started
    /\ \E primary \in ProbeSamples, level \in BOOLEAN :
          out' \in IF hal_pulse_start = Guard
                  THEN on_pulse_start(HalGetState(primary, level))
                  ELSE { [Out(hal_pulse_start) EXCEPT !.fwd = 1, !.callee = hal_pulse_start] }
    /\ UNCHANGED << cfgVars, pulseVars, stateVars, probe_connected, on_spindle_set_state,
                    invert_probe_pin, limits_enabled, toggleQ, pinLevel, probing, fx >>

(***************************************************************************)
(* Spindle guard.                                                          *)
(***************************************************************************)
SpindleStates == {0, 1, 3}    \* spindle_state_t.value: off, on, on + ccw

\* mutant of onSpindleSetState: the test reads the installed pulse guard
\* instead of the arming source flags
onSpindleSetStateByGuard(pc, state) ==
    LET o == [Out("onSpindleSetState") EXCEPT !.callee = on_spindle_set_state, !.fwd = 1,
                                               !.arg2 = state]
    IN IF Armed /\ state # 0
       THEN [o EXCEPT !.arg = 0, !.resets = 1, !.warns = 1]
       ELSE [o EXCEPT !.arg = state]

\* onSpindleSetState: arg of out is the state handed to the saved set_state
\* handler, arg2 the state that was requested
onSpindleSetState(pc, state) ==
    LET o == [Out("onSpindleSetState") EXCEPT !.callee = on_spindle_set_state, !.fwd = 1,
                                               !.arg2 = state]
    IN IF ConnectedValue(pc) /\ state # 0
       THEN [o EXCEPT !.arg = 0, !.resets = 1, !.warns = 1]
       ELSE [o EXCEPT !.arg = state]

\* the host selects a spindle: its set_state is a fresh copy of the driver's
onSpindleSelect ==
    /\ Running
    /\ on_spindle_set_state' = HostSpindle
    /\ \E r \in BOOLEAN :
          out' = ChainStatus(Out("onSpindleSelect"), hooks.on_spindle_select, r)
    /\ FxEnd
    /\ UNCHANGED << cfgVars, pulseVars, stateVars, probe_connected, invert_probe_pin,
                    limits_enabled, toggleQ, pinLevel, probing >>

\* the host calls spindle->set_state of the selected spindle
SpindleSetState(state) ==
    /\ Started
    /\ out' = onSpindleSetState(probe_connected, state)
    /\ FxEnd
    /\ UNCHANGED << cfgVars, pulseVars, stateVars, probe_connected, on_spindle_set_state,
                    invert_probe_pin, limits_enabled, toggleQ, pinLevel, probing >>

(***************************************************************************)
(* Probe lifecycle and fixture probing.                                    *)
(***************************************************************************)
probe_start ==
    /\ Started
    /\ ~probing
    /\ protection_off
    /\ probing' = TRUE
    /\ \E r \in BOOLEAN : out' = ChainStatus(Out("probe_start"), hooks.on_probe_start, r)
    /\ fx' = IF fx.stage = "begun"
             THEN [fx EXCEPT !.stage = "started", !.armed = Armed']
             ELSE FxIdle
    /\ UNCHANGED << cfgVars, stateVars, probe_connected, on_spindle_set_state,
                    invert_probe_pin, limits_enabled, toggleQ, pinLevel >>

probe_completed ==
    /\ Started
    /\ probing
    /\ protection_on
    /\ invert_probe_pin' = nvs_invert_probe_pin
    /\ limits_enabled' = hard_enabled
    /\ IF probe_get_state # NULL
       THEN /\ hal_get_state' = probe_get_state
            /\ probe_get_state' = NULL
       ELSE UNCHANGED stateVars
    /\ probing' = FALSE
    /\ out' = Chain(Out("probe_completed"), hooks.on_probe_completed)
    /\ fx' = IF fx.stage = "started" THEN [fx EXCEPT !.stage = "ended"] ELSE FxIdle
    /\ UNCHANGED << cfgVars, probe_connected, on_spindle_set_state, toggleQ, pinLevel >>

\* mutant of ToolChange: the reconfiguration is done for every caller
ToolChangeAlways(tool) == TRUE

\* if(tool): the call comes from within a tool change
ToolChange(tool) == tool

\* probe_fixture; tool is TRUE when the tool pointer is not NULL
probe_fixture(tool) ==
    /\ Started
    /\ IF ToolChange(tool) /\ flags.invert
       THEN invert_probe_pin' = ~nvs_invert_probe_pin
       ELSE UNCHANGED invert_probe_pin
    /\ IF ToolChange(tool) /\ flags.tool_pin
       THEN /\ probe_get_state' = hal_get_state
            /\ hal_get_state' = Redirect
       ELSE UNCHANGED stateVars
    /\ IF ToolChange(tool) /\ ~hard_enabled /\ flags.hardlimits
       THEN limits_enabled' = TRUE
       ELSE UNCHANGED limits_enabled
    /\ \E r \in BOOLEAN :
          out' = ChainStatus([Out("probe_fixture") EXCEPT !.arg = IF tool THEN 1 ELSE 0],
                             hooks.on_probe_fixture, r)
    /\ fx' = IF tool /\ ~probing
             THEN [stage |-> "begun", pol |-> invert_probe_pin, lim |-> limits_enabled,
                   armed |-> FALSE]
             ELSE FxIdle
    /\ UNCHANGED << cfgVars, pulseVars, probe_connected, on_spindle_set_state,
                    toggleQ, pinLevel, probing >>

\* hal.driver_reset: the saved handler is probe_reset itself when the init code
\* captured it a second time, and then the call never returns
probe_reset ==
    /\ Started
    /\ invert_probe_pin' = nvs_invert_probe_pin
    /\ limits_enabled' = hard_enabled
    /\ out' = IF driver_reset = "probe_reset"
              THEN [Out("probe_reset") EXCEPT !.callee = driver_reset,
                                              !.fwd = MaxRecursion, !.term = FALSE]
              ELSE Chain(Out("probe_reset"), driver_reset)
    /\ probing' = FALSE
    /\ fx' = IF fx.stage \in {"begun", "started"} THEN [fx EXCEPT !.stage = "reset"]
             ELSE FxIdle
    /\ UNCHANGED << cfgVars, pulseVars, stateVars, probe_connected, on_spindle_set_state,
                    toggleQ, pinLevel >>

(***************************************************************************)
(* Settings load, which the host calls once while it starts up, right      *)
(* after probe_protect_init registered the settings.                       *)
(***************************************************************************)
LoadPorts == 0..MaxPorts \cup {255}          \* numbers of digital inputs tried
StoredPorts == 0..MaxPorts \cup {254, 255}   \* port indices found in NVS

\* the settings were registered and the host has not loaded them yet
LoadPending == registered /\ out.op = "probe_protect_init"

\* stored is the content of NVS, nvs_ok whether it could be read; claim1, irq and
\* claim2 are the results of the two ioport_claim calls and of
\* register_interrupt_handler.  arg and arg2 of out keep the port indices as
\* they were before the sanity check.
plugin_settings_load(stored, nvs_ok, num_digital_out, claim1, irq, claim2) ==
    LET raw == IF nvs_ok THEN stored ELSE plugin_settings_restore(num_digital_out)
        new == LoadedSettings(stored, nvs_ok, num_digital_out, n_ports)
        w1 == IF new.flags.ext_pin /\ ~claim1 THEN 1 ELSE 0
        w2 == IF new.flags.ext_pin /\ ~irq THEN 1 ELSE 0
        w3 == IF new.flags.tool_pin /\ ~claim2 THEN 1 ELSE 0
    IN /\ LoadPending
       /\ probe_protect_settings' = new
       /\ probe_connect_port' = new.protect_port
       /\ nvs_invert_probe_pin' = invert_probe_pin
       /\ user_mcode' = OwnMCode
       /\ out' = [Out("plugin_settings_load") EXCEPT !.arg = raw.protect_port,
                      !.arg2 = raw.tool_port, !.warns = w1 + w2 + w3]
       /\ UNCHANGED << n_ports, tool_probe_port, driver_reset, hooks, hard_enabled,
                       registered, pulseVars, stateVars, probe_connected,
                       on_spindle_set_state, invert_probe_pin, limits_enabled,
                       toggleQ, pinLevel, probing, fx >>

\* state after probe_protect_init on a host with explicit pin claiming
InitLoad ==
    /\ \E np \in LoadPorts : Boot(TRUE, TRUE, np)
    /\ hooks = HostHooks
    /\ ~pinLevel
    /\ probe_protect_settings = ZeroSettings
    /\ nvs_invert_probe_pin = FALSE
    /\ user_mcode = OwnMCode

NextLoad ==
    /\ LoadPending
    /\ \E p \in StoredPorts, t \in StoredPorts, f \in Configs, nvs_ok \in BOOLEAN,
          dout \in 0..MaxPorts, claim1 \in BOOLEAN, irq \in BOOLEAN, claim2 \in BOOLEAN :
            plugin_settings_load([protect_port |-> p, tool_port |-> t, flags |-> f],
                                 nvs_ok, dout, claim1, irq, claim2)

SpecLoad == InitLoad /\ [][NextLoad]_vars

(***************************************************************************)
(* The program.                                                            *)
(***************************************************************************)
Next ==
    \/ set_connected
    \/ ProcessToggle
    \/ \E tool_id \in ToolIds : onToolSelected(tool_id)
    \/ \E code \in MCodes : mcode_check(code)
    \/ \E code \in MCodes : mcode_validate(code)
    \/ \E state \in ExecStates, code \in MCodes : mcode_execute(state, code)
    \/ Pulse
    \/ onSpindleSelect
    \/ \E state \in SpindleStates : SpindleSetState(state)
    \/ probe_start
    \/ probe_completed
    \/ \E tool \in BOOLEAN : probe_fixture(tool)
    \/ probe_reset

Spec == Init /\ [][Next]_vars

\* the host's main loop keeps servicing its realtime command queue
SpecFair == Spec /\ WF_vars(ProcessToggle)

(***************************************************************************)
(* Properties.                                                             *)
(***************************************************************************)
AnySource == probe_connected.ext_pin \/ probe_connected.mcode \/ probe_connected.t99

\* C1: whenever no toggle request is pending and no probe is in progress, the
\* pulse guard is installed if and only if one of the arming source flags
\* (ext_pin, mcode, t99) is set.
C1_ArmedIffSource == (toggleQ = 0 /\ ~probing) => (Armed <=> AnySource)

\* C2: a pulse request handled by the guard with an unsafe probe sample
\* (triggered or not connected) is not handed on to the previous pulse handler
\* and enqueues exactly one CMD_RESET.
C2_UnsafePulseSuppressed ==
    (out.op = "on_pulse_start" /\ out.arg = 1) => (out.fwd = 0 /\ out.resets = 1)

\* C3: when an arming source flag is set and onSpindleSetState is called with a
\* non-zero state, the saved spindle handler runs exactly once, is handed the
\* zero state, and exactly one CMD_RESET is enqueued, also while the pulse
\* guard is not installed.
C3_SpindleGuard ==
    (out.op = "onSpindleSetState" /\ out.arg2 # 0 /\ AnySource) =>
        /\ out.term
        /\ out.fwd = 1
        /\ out.callee = HostSpindle
        /\ out.arg = 0
        /\ out.resets = 1

\* C3 witness: a source flag is set, a probe is running with the pulse guard
\* removed, and a non-zero spindle state was requested and vetoed.
C3_Witness ==
    /\ out.op = "onSpindleSetState"
    /\ out.arg2 # 0
    /\ AnySource
    /\ probing /\ ~Armed
    /\ out.arg = 0 /\ out.resets = 1

\* C4: a tool-change fixture probe (probe_fixture with a tool, probe_start,
\* probe_completed) ends with the probe polarity and the hard-limit enablement
\* it began with, was disarmed during the probe and is armed at its end.
C4_FixtureRestores ==
    fx.stage = "ended" =>
        /\ invert_probe_pin = fx.pol
        /\ limits_enabled = fx.lim
        /\ ~fx.armed
        /\ Armed

\* the command of the step asks for the value probe_connected.mcode already has
C5_Redundant ==
    /\ out'.op = "mcode_execute"
    /\ \/ out'.arg = MCODE_CONNECT /\ probe_connected.mcode
       \/ out'.arg = MCODE_DISCONNECT /\ ~probe_connected.mcode

C5_NoChange ==
    /\ probe_connected' = probe_connected
    /\ UNCHANGED pulseVars
    /\ toggleQ' = toggleQ

\* C5 as stated: a redundant M401 / M402 leaves the source flags and the pulse
\* handler unchanged, enqueues no toggle request and reports exactly one warning.
C5_RedundantWarnsOnce == [][C5_Redundant => (C5_NoChange /\ out'.warns = 1)]_vars

\* C5 amended: a redundant M401 / M402 leaves the source flags and the pulse
\* handler unchanged and enqueues no toggle request; it reports exactly one
\* warning when executed outside check mode and none in check mode.
C5_RedundantNoChange ==
    [][C5_Redundant =>
        (C5_NoChange /\ out'.warns = IF out'.ctx = "STATE_CHECK_MODE" THEN 0 ELSE 1)]_vars

\* C5 witness: M401 executed outside check mode with the flag already set.
C5_Witness ==
    /\ out.op = "mcode_execute" /\ out.arg = MCODE_CONNECT /\ out.ctx = "STATE_IDLE"
    /\ out.warns = 1
    /\ probe_connected.mcode

\* C6: after onToolSelected the t99 flag is set exactly when the selected tool
\* id is 99, whatever the flag was before, and the call returns.
C6_ToolFlag ==
    out.op = "onToolSelected" => (out.term /\ (probe_connected.t99 <=> out.arg = PROBE_TOOL))

\* C6 witness: a tool other than 99 was selected and the flag is clear.
C6_Witness ==
    /\ out.op = "onToolSelected" /\ out.arg # PROBE_TOOL
    /\ ~probe_connected.t99

\* C7: after plugin_settings_load a port index that was >= n_ports before the
\* sanity check is < n_ports, for protect_port and for tool_port.
C7_LoadClamps ==
    out.op = "plugin_settings_load" =>
        /\ out.arg >= n_ports => probe_protect_settings.protect_port < n_ports
        /\ out.arg2 >= n_ports => probe_protect_settings.tool_port < n_ports

\* C8: probe_reset leaves the arming source flags unchanged and, when a fixture
\* probe had begun and not completed, leaves the probe polarity and the
\* hard-limit enablement at the values they had before the fixture probe.
C8_ResetRestores ==
    [][out'.op = "probe_reset" =>
        /\ probe_connected' = probe_connected
        /\ fx'.stage = "reset" =>
              (invert_probe_pin' = fx.pol /\ limits_enabled' = fx.lim)]_vars

\* C9: mcode_check, mcode_validate and mcode_execute called with a code other
\* than 401 and 402 return, and hand the call on at most once and only to the
\* handler the host had before probe_protect_init.
C9_UnknownForwarded ==
    (out.op \in {"mcode_check", "mcode_validate", "mcode_execute"} /\ ~Owned(out.arg)) =>
        /\ out.term
        /\ out.fwd <= 1
        /\ out.callee \in {NULL, "host_user_mcode"}

\* C10: between probe_start and probe_completed the pulse guard is not installed.
C10_NoGuardWhileProbing == probing => ~Armed

\* C11: after probe_completed returns, hal.probe.get_state is the driver's
\* primary provider and no saved provider remains, however many tool-context
\* probe_fixture calls came before it.
C11_CompletedRestoresPrimary ==
    out.op = "probe_completed" =>
        (hal_get_state = DriverGetState /\ probe_get_state = NULL)

\* C12: a pulse handled by the guard with a sample that is connected and not
\* triggered returns, enqueues no CMD_RESET and is handed on exactly once to
\* the driver's pulse handler, the one installed before the plugin armed.
C12_SafePulseForwarded ==
    (out.op = "on_pulse_start" /\ out.arg = 0) =>
        /\ out.term
        /\ out.resets = 0
        /\ out.fwd = 1
        /\ out.callee = DriverPulse

\* C13: after on_probe_connected_toggle processed a toggle request with every
\* arming source flag false, the installed pulse handler is the driver's
\* original handler.
C13_DisarmRestoresDriver ==
    (out.op = "on_probe_connected_toggle" /\ ~AnySource) =>
        hal_pulse_start = DriverPulse

\* C14: the reset handler saved by probe_protect_init is never probe_reset
\* itself, and a machine reset returns after handing the call on exactly once
\* to the reset handler the driver had before the plugin.
C14_ResetChainsOnce ==
    /\ driver_reset # "probe_reset"
    /\ out.op = "probe_reset" =>
          (out.term /\ out.fwd = 1 /\ out.callee = "host_driver_reset")

\* C19: the redirected provider is installed only with the tool probe pin
\* configured, and after probe_completed or after a probe_reset, when no
\* fixture probe is in progress, hal.probe.get_state is the primary provider.
C19_RedirectOnlyWhileProbing ==
    /\ hal_get_state = Redirect => flags.tool_pin
    /\ out.op \in {"probe_reset", "probe_completed"} => hal_get_state = DriverGetState

\* C20: while the redirected provider is installed a probe state query reads
\* the digital input with the loaded and clamped index tool_port, and returns
\* connected and triggered = (pin level XOR tool_pin_inv).
C20_RedirectReadsToolPort ==
    hal_get_state = Redirect =>
        /\ probeGetStatePort = probe_protect_settings.tool_port
        /\ \A primary \in ProbeSamples, level \in BOOLEAN :
              HalGetState(primary, level) =
                  [connected |-> TRUE, triggered |-> (level # flags.tool_pin_inv)]

\* the step is a call of the interrupt handler and changes nothing but the
\* queue of toggle requests, to which it adds one
C15_IsrMutatesNothing ==
    out'.op = "set_connected" =>
        /\ probe_connected' = probe_connected
        /\ UNCHANGED << pulseVars, stateVars, invert_probe_pin, limits_enabled, probing >>
        /\ toggleQ' = toggleQ + 1
        /\ out'.fwd = 0 /\ out'.resets = 0 /\ out'.warns = 0

C15_ExtPinChanged == probe_connected'.ext_pin # probe_connected.ext_pin

\* the new flag is the pin level read in the step, inverted when so configured
C15_ReRead == probe_connected'.ext_pin = (pinLevel' # flags.ext_pin_inv)

\* C15 as stated: set_connected changes no interlock state and enqueues one
\* toggle request; the ext_pin flag changes only in a step that takes a toggle
\* request from the queue and runs on_probe_connected_toggle, and then to the
\* pin level read there (inverted when so configured).
C15_ExtPinOnlyByToken ==
    [][ /\ C15_IsrMutatesNothing
        /\ C15_ExtPinChanged =>
              /\ out'.op = "on_probe_connected_toggle"
              /\ toggleQ' = toggleQ - 1
              /\ C15_ReRead ]_vars

\* C15 amended: set_connected changes no interlock state and enqueues one
\* toggle request; the ext_pin flag changes only in a step that runs
\* on_probe_connected_toggle, which is the processing of a toggle request or a
\* tool selection, and then to the pin level read there (inverted when so
\* configured).
C15_ExtPinOnlyByReRead ==
    [][ /\ C15_IsrMutatesNothing
        /\ C15_ExtPinChanged =>
              /\ out'.op \in {"on_probe_connected_toggle", "onToolSelected"}
              /\ C15_ReRead ]_vars

\* C15 witness: the pin went high, the interrupt handler queued a request, and
\* the flag is still clear and the guard not installed.
C15_Witness ==
    /\ out.op = "set_connected"
    /\ toggleQ = 1
    /\ pinLevel /\ ~flags.ext_pin_inv
    /\ ~probe_connected.ext_pin
    /\ ~Armed

C16_CommandFrame ==
    out'.op = "mcode_execute" =>
        /\ probe_connected'.ext_pin = probe_connected.ext_pin
        /\ probe_connected'.t99 = probe_connected.t99

C16_ToggleFrame ==
    out'.op = "on_probe_connected_toggle" =>
        /\ probe_connected'.mcode = probe_connected.mcode
        /\ probe_connected'.t99 = probe_connected.t99

C16_ProbeFrame ==
    out'.op \in {"probe_start", "probe_completed", "probe_fixture", "probe_reset"} =>
        probe_connected' = probe_connected

\* C16 as stated: onToolSelected leaves the mcode and ext_pin flags unchanged,
\* M401 / M402 leave ext_pin and t99 unchanged, toggle processing leaves mcode
\* and t99 unchanged, and probe_start, probe_completed, probe_fixture and
\* probe_reset leave all source flags unchanged.
C16_OwnedFlagsOnly ==
    [][ /\ out'.op = "onToolSelected" =>
              /\ probe_connected'.mcode = probe_connected.mcode
              /\ probe_connected'.ext_pin = probe_connected.ext_pin
        /\ C16_CommandFrame
        /\ C16_ToggleFrame
        /\ C16_ProbeFrame ]_vars

\* C16 amended: onToolSelected leaves the mcode flag unchanged and, unless the
\* external connect pin is configured, the ext_pin flag too (with the pin
\* configured it re-reads the pin); M401 / M402 leave ext_pin and t99
\* unchanged, toggle processing leaves mcode and t99 unchanged, and the four
\* probe handlers leave all source flags unchanged.
C16_OwnedFlagsAndReRead ==
    [][ /\ out'.op = "onToolSelected" =>
              /\ probe_connected'.mcode = probe_connected.mcode
              /\ flags.ext_pin \/ probe_connected'.ext_pin = probe_connected.ext_pin
        /\ C16_CommandFrame
        /\ C16_ToggleFrame
        /\ C16_ProbeFrame ]_vars

\* C16 witness: an ordinary tool was selected with the M-code flag set and the
\* external pin flag set; both are still set and the tool flag is clear.
C16_Witness ==
    /\ out.op = "onToolSelected" /\ out.arg # PROBE_TOOL
    /\ probe_connected.mcode
    /\ probe_connected.ext_pin
    /\ ~probe_connected.t99

\* M401 executed outside check mode with the M-code flag clear
C17_Connect ==
    /\ out'.op = "mcode_execute" /\ out'.ctx # "STATE_CHECK_MODE"
    /\ out'.arg = MCODE_CONNECT
    /\ ~probe_connected.mcode

\* M402 executed outside check mode with the M-code flag set
C17_Disconnect ==
    /\ out'.op = "mcode_execute" /\ out'.ctx # "STATE_CHECK_MODE"
    /\ out'.arg = MCODE_DISCONNECT
    /\ probe_connected.mcode

\* a non-redundant M401 / M402 changes the flag, enqueues one toggle request
\* and leaves the pulse handler alone; processing a toggle request with the
\* flag set installs the guard
C17_Step ==
        /\ C17_Connect =>
              /\ probe_connected'.mcode
              /\ toggleQ' = toggleQ + 1
              /\ UNCHANGED pulseVars
              /\ out'.warns = 0
        /\ C17_Disconnect =>
              /\ ~probe_connected'.mcode
              /\ toggleQ' = toggleQ + 1
              /\ UNCHANGED pulseVars
              /\ out'.warns = 0
        /\ (out'.op = "on_probe_connected_toggle" /\ probe_connected.mcode) => Armed'

\* C17: a non-redundant M401 sets the M-code flag, enqueues exactly one toggle
\* request and leaves the pulse handler as it is; a non-redundant M402 clears
\* the flag and enqueues exactly one toggle request; the step that processes a
\* toggle request while the M-code flag is set installs the guard; and with
\* the queue serviced, a set M-code flag with a request waiting leads to the
\* guard being installed, unless an M402 clears the flag first or the run has
\* ended in a call that never returns (after which no queue is serviced).
C17_CommandDefersArming ==
    /\ [][C17_Step]_vars
    /\ (probe_connected.mcode /\ toggleQ > 0) ~>
           (Armed \/ ~probe_connected.mcode \/ ~Running)

\* C17 witness: M401 was executed, its toggle request is waiting and the guard
\* is not installed yet.
C17_Witness ==
    /\ out.op = "mcode_execute" /\ out.arg = MCODE_CONNECT /\ out.ctx = "STATE_IDLE"
    /\ out.warns = 0
    /\ probe_connected.mcode
    /\ toggleQ = 1
    /\ ~Armed

\* C18: probe_fixture called without a tool leaves the probe polarity, the
\* hard-limit enablement, the installed probe state provider and the saved
\* provider unchanged, returns, and hands the call on once to the previous
\* probe-fixture handler, returning its status; it returns true when there is
\* no previous handler.
C18_OrdinaryProbeNoReconfig ==
    [][ (out'.op = "probe_fixture" /\ out'.arg = 0) =>
            /\ invert_probe_pin' = invert_probe_pin
            /\ limits_enabled' = limits_enabled
            /\ UNCHANGED stateVars
            /\ out'.term
            /\ IF hooks.on_probe_fixture # NULL
               THEN /\ out'.fwd = 1
                    /\ out'.callee = hooks.on_probe_fixture
                    /\ out'.ret = out'.res
               ELSE /\ out'.fwd = 0
                    /\ out'.ret ]_vars

\* C18 witness: an ordinary probe with polarity inversion, forced hard limits
\* and the tool probe pin all configured; the previous handler returned false
\* and nothing was reconfigured.
C18_Witness ==
    /\ out.op = "probe_fixture" /\ out.arg = 0
    /\ out.fwd = 1 /\ ~out.ret
    /\ flags.invert /\ flags.hardlimits /\ flags.tool_pin
    /\ ~hard_enabled /\ ~limits_enabled
    /\ invert_probe_pin = nvs_invert_probe_pin
    /\ hal_get_state = DriverGetState

\* C21: mcode_execute called in check mode, with 401, 402 or any other code,
\* leaves every arming source flag unchanged, enqueues no toggle request,
\* reports no warning, hands the call on to no execute handler, and returns.
C21_CheckModeNoEffect ==
    [][ (out'.op = "mcode_execute" /\ out'.ctx = "STATE_CHECK_MODE") =>
            /\ probe_connected' = probe_connected
            /\ toggleQ' = toggleQ
            /\ UNCHANGED pulseVars
            /\ out'.warns = 0
            /\ out'.resets = 0
            /\ out'.fwd = 0
            /\ out'.callee = NULL
            /\ out'.term ]_vars

\* C21 witness: M401 was executed in check mode with the M-code flag clear;
\* the flag is still clear, nothing is queued and the guard is not installed.
C21_Witness ==
    /\ out.op = "mcode_execute" /\ out.ctx = "STATE_CHECK_MODE"
    /\ out.arg = MCODE_CONNECT
    /\ ~probe_connected.mcode
    /\ toggleQ = 0
    /\ ~Armed

====
